---------------------------- MODULE Spec2Model ----------------------------
(***************************************************************************)
(* Interrupt-driven multi-channel ADC sampling of the STM32F4 platform     *)
(* layer (platform_adc_stop, platform_adc_update_sequence,                 *)
(* DMA2_Stream0_IRQHandler, platform_adc_set_clock,                        *)
(* platform_adc_start_sequence) and the byte ring buffer of ringbuff.h.    *)
(*                                                                         *)
(* Two specifications share the module:                                    *)
(*   Spec    the ADC device: one task context whose operations advance     *)
(*           statement by statement, the conversion hardware, and the DMA  *)
(*           completion handler, which preempts the task as soon as its    *)
(*           interrupt is pending and runs to its end;                     *)
(*   SpecRB  one ring buffer with an interrupt-context producer (push,     *)
(*           atomic towards the task) and a task-context consumer (pop,    *)
(*           statement by statement).                                      *)
(* SpecClk, SpecId and SpecLive are variants of Spec; SpecDelay is         *)
(* delay_ms with the system tick.                                          *)
(***************************************************************************)
EXTENDS Integers, Sequences, FiniteSets, TLC

(***************************************************************************)
(* Bounds of the model.                                                    *)
(***************************************************************************)
\* Largest ring buffer size (struct rbuff.size) SpecRB constructs.
MaxRBSize == 4
\* Push attempts of one SpecRB behaviour.
MaxPushes == 5
\* Largest byte value pushed in SpecRB (0 is the value of a slot never written).
MaxByte == 2

VARIABLES
  rb,      \* struct rbuff: data, top (next write), bottom (next read), size
  rbTask,  \* the consumer's position inside rbuff_pop and the byte it holds
  rbHist   \* history: bytes pushed and popped, outcome of the last push and
           \* pop, largest fill level, whether a push came during the pop

rbvars == <<rb, rbTask, rbHist>>

VARIABLES
  ch,    \* elua_adc_ch_state of every channel
  d,     \* elua_adc_dev_state of device 0
  hw,    \* ADC, DMA stream, NVIC and trigger timer registers, adc_init_struct
  task,  \* the task context: the statement it is at and the call's arguments
  gh     \* history: scans completed, handler runs, per-channel sample logs

adcvars == <<ch, d, hw, task, gh>>

VARIABLES
  systick,  \* volatile unsigned int systick, the tick counter
  dly       \* delay_ms: the statement it is at, its variable ms, and
            \* history: the argument and the ticks since the call

dlvars == <<systick, dly>>

vars == <<rb, rbTask, rbHist, ch, d, hw, task, gh, systick, dly>>

(***************************************************************************)
(* Ring buffer (ringbuff.h).  Only the declarations are in the sources;    *)
(* the bodies follow the ring buffer contract: push fails and changes      *)
(* nothing when full, pop reports empty, one slot is kept free.            *)
(***************************************************************************)
Bytes == 1..MaxByte

RBSizes == 2..MaxRBSize

rbuff_new(size) ==
  [data |-> [i \in 0..(size - 1) |-> 0], top |-> 0, bottom |-> 0, size |-> size]

rbuff_is_empty(p) == p.top = p.bottom

rbuff_is_full(p) == (p.top + 1) % p.size = p.bottom

\* Number of unread bytes.
rbuff_count(p) == (p.top - p.bottom + p.size) % p.size

\* The unread bytes, oldest first.
rbuff_contents(p) ==
  [i \in 1..rbuff_count(p) |-> p.data[(p.bottom + i - 1) % p.size]]

rbuff_push_nowrap(p, c) ==
  IF rbuff_is_full(p)
    THEN p
    ELSE [p EXCEPT !.data[p.top] = c, !.top = p.top + 1]

\* The buffer after push(c): unchanged when full.
rbuff_push(p, c) ==
  IF rbuff_is_full(p)
    THEN p
    ELSE [p EXCEPT !.data[p.top] = c, !.top = (p.top + 1) % p.size]

\* Whether push(c) stores the byte.
rbuff_push_ok(p) == ~rbuff_is_full(p)

\* What push(c) hands back to its caller: rbuff_push is declared void.
rbuff_push_ret(p) == "void"

rbuff_pop_read_newest(p) == p.data[(p.top + p.size - 1) % p.size]

\* pop, first statement: the byte at the read position.
rbuff_pop_read(p) == p.data[p.bottom]

rbuff_pop_retract(p) == [p EXCEPT !.top = (p.top + p.size - 1) % p.size]

rbuff_pop_advance_twice(p) == [p EXCEPT !.bottom = (p.bottom + 2) % p.size]

\* pop, second statement: the read position moves on.
rbuff_pop_advance(p) == [p EXCEPT !.bottom = (p.bottom + 1) % p.size]

InitRB ==
  /\ \E size \in RBSizes : rb = rbuff_new(size)
  /\ rbTask = [pc |-> "idle", val |-> 0]
  /\ rbHist = [pushed |-> <<>>, popped |-> <<>>, attempts |-> 0,
               lastPush |-> "none", pushRet |-> "none",
               lastPop |-> "none", peak |-> 0,
               rejectedAt |-> 0, preempted |-> FALSE]

\* Interrupt context: one whole push; it may come between any two
\* statements of the task's pop.
RBPush(c) ==
  /\ UNCHANGED <<adcvars, dlvars>>
  /\ rbHist.attempts < MaxPushes
  /\ rb' = rbuff_push(rb, c)
  /\ rbHist' = [rbHist EXCEPT
                  !.attempts = @ + 1,
                  !.pushed = IF rbuff_push_ok(rb) THEN Append(@, c) ELSE @,
                  !.lastPush = IF rbuff_push_ok(rb) THEN "ok" ELSE "full",
                  !.pushRet = rbuff_push_ret(rb),
                  !.rejectedAt = IF rbuff_push_ok(rb) THEN @ ELSE rbuff_count(rb),
                  !.peak = IF rbuff_count(rb') > @ THEN rbuff_count(rb') ELSE @,
                  !.preempted = @ \/ rbTask.pc # "idle"]
  /\ UNCHANGED rbTask

\* Task context, pop on an empty buffer: nothing is returned.
RBPopEmpty ==
  /\ UNCHANGED <<adcvars, dlvars>>
  /\ rbTask.pc = "idle"
  /\ rbuff_is_empty(rb)
  /\ rbHist.lastPop # "empty"
  /\ rbHist' = [rbHist EXCEPT !.lastPop = "empty"]
  /\ UNCHANGED <<rb, rbTask>>

\* Task context, pop: the emptiness test passed.
RBPopTest ==
  /\ UNCHANGED <<adcvars, dlvars>>
  /\ rbTask.pc = "idle"
  /\ ~rbuff_is_empty(rb)
  /\ rbTask' = [pc |-> "read", val |-> 0]
  /\ rbHist' = [rbHist EXCEPT !.preempted = FALSE]
  /\ UNCHANGED rb

\* Task context, pop: the byte at the read position is read.
RBPopRead ==
  /\ UNCHANGED <<adcvars, dlvars>>
  /\ rbTask.pc = "read"
  /\ rbTask' = [pc |-> "advance", val |-> rbuff_pop_read(rb)]
  /\ UNCHANGED <<rb, rbHist>>

\* Task context, pop: the read position is published and the byte returned.
RBPopAdvance ==
  /\ UNCHANGED <<adcvars, dlvars>>
  /\ rbTask.pc = "advance"
  /\ rb' = rbuff_pop_advance(rb)
  /\ rbTask' = [pc |-> "idle", val |-> 0]
  /\ rbHist' = [rbHist EXCEPT !.popped = Append(@, rbTask.val), !.lastPop = "byte"]

NextRB ==
  \/ \E c \in Bytes : RBPush(c)
  \/ RBPopEmpty
  \/ RBPopTest
  \/ RBPopRead
  \/ RBPopAdvance

(***************************************************************************)
(* The ADC device.                                                         *)
(***************************************************************************)
\* Number of ADC channels the model instantiates (ids 0..NUM_ADC-1).
NUM_ADC == 2
\* Largest sample count a start requests (0 asks for free-running).
MaxCount == 3
\* Largest smoothing depth a start requests (window of 2^depth samples).
MaxDepth == 1
\* Scans the conversion hardware completes in one behaviour.
MaxScans == 4
\* Calls (start, stop, set_clock) the task makes in one behaviour.
MaxOps == 3
\* Size of each channel's sample buffer.
ADCBufSize == 4
\* The timer frequency requested besides 0.
TestFreq == 1000
\* Channel ids past NUM_ADC - 1 that SpecId calls start and stop with.
MaxBeyond == 1
\* SpecClk requests every frequency from 0 to ClkSlow ...
ClkSlow == 3000
\* ... and every frequency within ClkNear of the timer base clock.
ClkNear == 3
\* TIM_GET_BASE_CLK( id ) is HCLK, whose value is set outside these sources:
\* the timer base clock the model takes, in Hz.
BaseClock == 1000000
\* The 16-bit counter range that sizes the prescaler.
TimerRange == 65536

Channels == 0..(NUM_ADC - 1)

Counts == 0..MaxCount

Depths == 0..MaxDepth

Frequencies == {0, TestFreq}

\* The content of a sample_buf slot or latest value nothing was written to.
NoSample == <<>>

RECURSIVE Pow2(_)
Pow2(n) == IF n = 0 THEN 1 ELSE 2 * Pow2(n - 1)

\* The channels of a set in ascending id order.
RECURSIVE Ascending(_)
Ascending(S) ==
  IF S = {} THEN <<>>
  ELSE LET m == CHOOSE x \in S : \A y \in S : x <= y
       IN <<m>> \o Ascending(S \ {m})

\* adc_init_ch_state: a channel after initialisation, inactive and without a sample.
InitChannel ==
  [op_pending |-> FALSE, reqsamples |-> 0, samples_delivered |-> 0,
   logsmoothlen |-> 0, smooth_ready |-> FALSE, smooth_cnt |-> 0,
   value_fresh |-> FALSE, latest_value |-> NoSample, freerunning |-> FALSE,
   buf |-> [rbuff_new(ADCBufSize) EXCEPT
              !.data = [i \in 0..(ADCBufSize - 1) |-> NoSample]]]

\* The state the operations of the platform layer read and write.
State == [ch |-> ch, d |-> d, hw |-> hw]

(***************************************************************************)
(* Register-level helpers.                                                 *)
(***************************************************************************)
\* ADC_TRIG_CFG( adn, n ): the external trigger edge, Rising or None.
ADC_TRIG_CFG(st, enable) == [st EXCEPT !.hw.trig = enable]

\* ADC_SoftwareStartConvCmd( ADCx, ENABLE ): SWSTART starts one conversion sequence.
ADC_SoftwareStartConvCmd(st) == [st EXCEPT !.hw.conv = TRUE]

\* INACTIVATE_CHANNEL( d, id ): the channel's bit of ch_active is cleared.
INACTIVATE_CHANNEL(st, id) == [st EXCEPT !.d.ch_active = @ \ {id}]

(***************************************************************************)
(* platform_adc_stop, statement by statement.                              *)
(***************************************************************************)
stop_pending_skip(st, id) == st

stop_pending(st, id) == [st EXCEPT !.ch[id].op_pending = FALSE]

stop_inactivate(st, id) == INACTIVATE_CHANNEL(st, id)

stop_last_always(st) == TRUE

stop_last(st) == st.d.ch_active = {}

stop_trigger(st) == ADC_TRIG_CFG(st, FALSE)

stop_nvic_skip(st) == st

stop_nvic(st) == [st EXCEPT !.hw.nvic = FALSE]

stop_running(st) == [st EXCEPT !.d.running = FALSE]

\* The whole of platform_adc_stop, as the completion handler runs it.
platform_adc_stop(st, id) ==
  LET s2 == stop_inactivate(stop_pending(st, id), id)
  IN IF stop_last(s2)
       THEN stop_running(stop_nvic(stop_trigger(s2)))
       ELSE s2

(***************************************************************************)
(* Rebuilding the scan sequence.                                           *)
(***************************************************************************)
update_quiesce_late(st) == [st EXCEPT !.hw.conv = FALSE]

\* ADC_TRIG_CFG DISABLE; ADC_DMACmd DISABLE; ADC_Cmd DISABLE and ADC_DeInit
\* end a conversion that had started.
update_quiesce(st) ==
  [st EXCEPT !.hw.trig = FALSE, !.hw.dmacmd = FALSE, !.hw.conv = FALSE]

\* ADC_RegularChannelConfig( id, seq_ctr+1 ) for every scan list entry
update_map(st) ==
  [st EXCEPT !.hw.rank = [i \in 1..st.d.seq_len |-> st.d.ch_state[i]],
             !.d.seq_ctr = 0]

\* adc_init_struct.ADC_NbrOfConversion = d->seq_len; ADC_Init; ADC_Cmd ENABLE
update_count(st) == [st EXCEPT !.hw.nbrConv = st.d.seq_len]

update_dma_stale(st) == [st EXCEPT !.hw.tcif = FALSE, !.hw.dmacmd = TRUE]

\* DMA_DeInit, dma_init_struct.DMA_BufferSize = d->seq_len, DMA_Init,
\* DMA_Cmd ENABLE; ADC_DMACmd ENABLE
update_dma(st) ==
  [st EXCEPT !.hw.dmaLen = st.d.seq_len, !.hw.tcif = FALSE,
             !.hw.dmacmd = TRUE]

\* The trigger comes back only for a clocked, running device.
update_trigger(st) ==
  IF st.d.clocked /\ st.d.running THEN ADC_TRIG_CFG(st, TRUE) ELSE st

\* The states platform_adc_update_sequence goes through, from its entry to
\* its return.
update_trace(st) ==
  LET s1 == update_quiesce(st)
      s2 == update_map(s1)
      s3 == update_count(s2)
      s4 == update_dma(s3)
  IN <<st, s1, s2, s3, s4, update_trigger(s4)>>

platform_adc_update_sequence(st) == update_trace(st)[6]

\* The scan list is rebuilt from the active channels in ascending id order.
adc_update_list(st) ==
  LET list == Ascending(st.d.ch_active)
  IN [st EXCEPT !.d.ch_state = list, !.d.seq_len = Len(list)]

\* adc_update_dev_sequence( 0 ): the scan list is rebuilt and the hardware
\* is programmed from it.
adc_update_dev_sequence(st) ==
  platform_adc_update_sequence(adc_update_list(st))

(***************************************************************************)
(* The completion handler.                                                 *)
(***************************************************************************)
\* adc_smooth_data( id ): one raw sample enters the smoothing window; the
\* window is ready once it holds 2^logsmoothlen samples.
adc_smooth_data(st, id) ==
  LET n == st.ch[id].smooth_cnt + 1
  IN [st EXCEPT !.ch[id].smooth_cnt = n,
                !.ch[id].smooth_ready = (n >= Pow2(st.ch[id].logsmoothlen))]

\* buf_write( BUF_ID_ADC, id, value_ptr ): the sample is queued in the
\* channel's own buffer.
buf_write(st, id, sample) == [st EXCEPT !.ch[id].buf = rbuff_push(@, sample)]

\* adc_samples_available( id ): the samples delivered to the channel since
\* its start.
adc_samples_available(st, id) == st.ch[id].samples_delivered

WarmingUp_never(s) == FALSE

\* The handler is still filling the channel's smoothing window.
WarmingUp(s) == s.logsmoothlen > 0 /\ ~s.smooth_ready

streams_gt2(s) == s.reqsamples > 2

\* else if ( s->reqsamples > 1 ): the samples of the channel are queued.
streams(s) == s.reqsamples > 1

\* The handler queues the sample of such a channel.
Queues(s) == ~WarmingUp(s) /\ streams(s)

count_reached_any(st, id) ==
  adc_samples_available(st, id) >= st.ch[id].reqsamples

count_reached_late(st, id) ==
  adc_samples_available(st, id) > st.ch[id].reqsamples /\ ~st.ch[id].freerunning

\* The channel has the number of requested samples and is not free-running.
count_reached(st, id) ==
  adc_samples_available(st, id) >= st.ch[id].reqsamples /\ ~st.ch[id].freerunning

handler_fresh_all(st, id, i) ==
  [st EXCEPT !.ch = [c \in Channels |-> [st.ch[c] EXCEPT
                       !.value_fresh = TRUE,
                       !.latest_value = st.d.sample_buf[i]]]]

\* s->value_fresh = 1: the channel at scan list position i has the sample
\* the scan left at that position of sample_buf.
handler_fresh(st, id, i) ==
  [st EXCEPT !.ch[id].value_fresh = TRUE,
             !.ch[id].latest_value = st.d.sample_buf[i]]

\* read_latest( id ): the latest value while it is fresh, nothing otherwise.
read_latest(st, id) ==
  IF st.ch[id].value_fresh THEN st.ch[id].latest_value ELSE NoSample

\* The sample of scan list position i reaches its channel.
HandlerSample(st, i) ==
  LET id == st.d.ch_state[i]
      a == handler_fresh([st EXCEPT !.d.seq_ctr = i - 1], id, i)
      b == IF WarmingUp(a.ch[id])
             THEN adc_smooth_data(a, id)
             ELSE IF streams(a.ch[id])
               THEN [buf_write(a, id, a.d.sample_buf[i])
                       EXCEPT !.ch[id].value_fresh = FALSE]
               ELSE a
  IN [b EXCEPT !.ch[id].samples_delivered = @ + 1]

\* One pass of the handler's loop, for scan list position i.
HandlerBody(st, i) ==
  LET id == st.d.ch_state[i]
      c == HandlerSample(st, i)
  IN IF count_reached(c, id)
       THEN platform_adc_stop(c, id)
       ELSE c

RECURSIVE HandlerLoop(_, _)
HandlerLoop(st, i) ==
  IF i > st.d.seq_len THEN st ELSE HandlerLoop(HandlerBody(st, i), i + 1)

\* DMA_ClearITPendingBit and the distribution loop
HandlerScan(st) ==
  [HandlerLoop([st EXCEPT !.hw.tcif = FALSE], 1) EXCEPT !.d.seq_ctr = 0]

\* if( d->running == 1 ) adc_update_dev_sequence( 0 )
handler_rebuild(st) ==
  IF st.d.running THEN adc_update_dev_sequence(st) ELSE st

handler_rearm_unclocked(st) ==
  IF ~st.d.clocked THEN ADC_SoftwareStartConvCmd(st) ELSE st

\* if ( d->clocked == 0 && d->running == 1 ) ADC_SoftwareStartConvCmd
handler_rearm(st) ==
  IF ~st.d.clocked /\ st.d.running THEN ADC_SoftwareStartConvCmd(st) ELSE st

DMA2_Stream0_IRQHandler(st) ==
  handler_rearm(handler_rebuild(HandlerScan(st)))

(***************************************************************************)
(* platform_adc_set_clock.                                                 *)
(***************************************************************************)
\* period = TIM_GET_BASE_CLK( id ) / frequency
clock_period0(f) == BaseClock \div f

clock_prescaler(f) == (clock_period0(f) \div TimerRange) + 1

clock_period_undivided(f) == clock_period0(f)

\* period /= prescaler
clock_period(f) == clock_period0(f) \div clock_prescaler(f)

\* The division of the returned frequency has a divisor other than zero.
clock_divides(f) == IF f = 0 THEN TRUE ELSE clock_period(f) > 0

\* What the division by a zero period leaves in frequency: 0 where the
\* core discards the division, no value where it traps.
DivByZeroResults == {0}

\* timer_base_struct.TIM_Period = period - 1; -1 stands for the all-ones
\* word that 0 - 1 wraps to in unsigned arithmetic.
clock_reload(f) == clock_period(f) - 1

\* The frequency platform_adc_set_clock returns.
clock_result(f) ==
  IF f > 0 THEN (BaseClock \div clock_prescaler(f)) \div clock_period(f) ELSE f

set_clock_mode_restart(st, f) ==
  IF f > 0
    THEN [st EXCEPT !.d.clocked = TRUE,
                    !.d.seq_ctr = 0, !.d.seq_len = 0,
                    !.hw.cfgEdge = "Rising",
                    !.hw.timPeriod = clock_reload(f),
                    !.hw.timPrescaler = clock_prescaler(f) - 1]
    ELSE [st EXCEPT !.d.clocked = FALSE,
                    !.hw.cfgEdge = "None"]

set_clock_mode_by_load(st, f) ==
  IF f > 0 /\ st.d.ch_active # {}
    THEN [st EXCEPT !.d.clocked = TRUE,
                    !.hw.cfgEdge = "Rising",
                    !.hw.timPeriod = clock_reload(f),
                    !.hw.timPrescaler = clock_prescaler(f) - 1]
    ELSE [st EXCEPT !.d.clocked = FALSE,
                    !.hw.cfgEdge = "None"]

\* The branch on the frequency: clocked, adc_init_struct, the timer.
set_clock_mode(st, f) ==
  IF f > 0
    THEN [st EXCEPT !.d.clocked = TRUE,
                    !.hw.cfgEdge = "Rising",
                    !.hw.timPeriod = clock_reload(f),
                    !.hw.timPrescaler = clock_prescaler(f) - 1]
    ELSE [st EXCEPT !.d.clocked = FALSE,
                    !.hw.cfgEdge = "None"]

(***************************************************************************)
(* platform_adc_start_sequence, statement by statement.                    *)
(***************************************************************************)
start_needed(st) == ~st.d.running

start_running_skip(st) == st

start_running(st) == [st EXCEPT !.d.running = TRUE]

start_clear(st) == [st EXCEPT !.hw.tcif = FALSE]

start_nvic_skip(st) == st

start_nvic(st) == [st EXCEPT !.hw.nvic = TRUE]

start_arm(st) ==
  IF st.d.clocked THEN ADC_TRIG_CFG(st, TRUE) ELSE ADC_SoftwareStartConvCmd(st)

\* The channel set-up of a start request: the channel is marked active and
\* its counters are reset; the parameters of the call replace the old ones.
adc_setup_channel(st, id, count, depth) ==
  [st EXCEPT !.d.ch_active = @ \cup {id},
             !.ch[id].op_pending = TRUE,
             !.ch[id].reqsamples = count,
             !.ch[id].freerunning = (count = 0),
             !.ch[id].samples_delivered = 0,
             !.ch[id].logsmoothlen = depth,
             !.ch[id].smooth_ready = FALSE,
             !.ch[id].smooth_cnt = 0]

(***************************************************************************)
(* Initial state: after platform_init (NVIC_Configuration, adcs_init).     *)
(***************************************************************************)
NoSnap == [trig |-> FALSE, nvic |-> FALSE, running |-> FALSE]

\* trigger, interrupt enable and running as a call finds them
Snap == [trig |-> hw.trig, nvic |-> hw.nvic, running |-> d.running]

IdleTask == [pc |-> "idle", op |-> "none", id |-> 0, count |-> 0, depth |-> 0,
             f |-> 0, ret |-> 0, err |-> "none", preempted |-> FALSE,
             snap |-> NoSnap]

InitHist ==
  [started |-> FALSE, idleStart |-> FALSE, restart |-> FALSE,
   stopReq |-> FALSE, stopRet |-> FALSE, emptyAtStart |-> FALSE,
   overflow |-> FALSE, midDrain |-> FALSE, hr |-> 0, dlv |-> <<>>,
   drained |-> <<>>]

\* Channels, device and registers as adcs_init leaves them.
InitState ==
  [ch |-> [id \in Channels |-> InitChannel],
   d |-> [running |-> FALSE, clocked |-> FALSE, ch_active |-> {},
          ch_state |-> <<>>, seq_len |-> 0, seq_ctr |-> 0,
          sample_buf |-> [i \in 1..NUM_ADC |-> NoSample]],
   hw |-> [trig |-> FALSE, conv |-> FALSE, nvic |-> FALSE, tcif |-> FALSE,
           nbrConv |-> 1, dmaLen |-> 1, rank |-> <<>>, dmacmd |-> TRUE,
           cfgEdge |-> "None", timPeriod |-> 0, timPrescaler |-> 0]]

InitGhost ==
  [scanNo |-> 0, hcount |-> 0, ops |-> 0, wild |-> FALSE, hot |-> FALSE,
   c |-> [id \in Channels |-> InitHist]]

InitADC ==
  /\ ch = InitState.ch
  /\ d = InitState.d
  /\ hw = InitState.hw
  /\ task = IdleTask
  /\ gh = InitGhost

\* The ring buffer of SpecRB does not take part in Spec.
RBParked ==
  /\ rb = rbuff_new(2)
  /\ rbTask = [pc |-> "idle", val |-> 0]
  /\ rbHist = [pushed |-> <<>>, popped |-> <<>>, attempts |-> 0,
               lastPush |-> "none", pushRet |-> "none",
               lastPop |-> "none", peak |-> 0,
               rejectedAt |-> 0, preempted |-> FALSE]

\* delay_ms and the tick counter do not take part in Spec.
IdleDelay == [pc |-> "idle", ms |-> 0, req |-> 0, elapsed |-> 0, late |-> FALSE]

DelayParked == systick = 0 /\ dly = IdleDelay

Init == InitADC /\ RBParked /\ DelayParked

(***************************************************************************)
(* Scheduling: the completion interrupt is taken as soon as it is pending  *)
(* and enabled; the task and the hardware go on only when it is not.       *)
(***************************************************************************)
IrqPending == hw.nvic /\ hw.tcif

\* A rebuild entered in state st finds the trigger and the DMA service on
\* and changes the channel mapping.
Hot(st) ==
  st.hw.trig /\ st.hw.dmacmd /\ update_map(st).hw.rank # st.hw.rank

Apply(st) == ch' = st.ch /\ d' = st.d /\ hw' = st.hw

Goto(pc) == task' = [task EXCEPT !.pc = pc]

(***************************************************************************)
(* Task context: start of a channel.                                       *)
(***************************************************************************)
TaskStart(id, count, depth) ==
  /\ UNCHANGED <<rbvars, dlvars>>
  /\ task.pc = "idle" /\ ~IrqPending /\ gh.ops < MaxOps
  /\ Apply(adc_setup_channel(State, id, count, depth))
  /\ task' = [pc |-> "start_seq", op |-> "start", id |-> id, count |-> count,
              depth |-> depth, f |-> 0, ret |-> 0, err |-> "none",
              preempted |-> FALSE,
              snap |-> NoSnap]
  /\ gh' = [gh EXCEPT !.ops = @ + 1, !.c[id] =
              [started |-> TRUE, idleStart |-> ~d.running,
               restart |-> id \in d.ch_active,
               stopReq |-> FALSE, stopRet |-> FALSE,
               emptyAtStart |-> rbuff_is_empty(ch[id].buf),
               overflow |-> FALSE, midDrain |-> FALSE, hr |-> 0,
               dlv |-> <<>>, drained |-> <<>>]]

\* if ( d->running != 1 )
TaskStartSeq ==
  /\ UNCHANGED <<rbvars, dlvars>>
  /\ task.pc = "start_seq" /\ ~IrqPending
  /\ Goto(IF start_needed(State) THEN "start_upd" ELSE "ret")
  /\ UNCHANGED <<ch, d, hw, gh>>

\* adc_update_dev_sequence( 0 )
TaskStartUpd ==
  /\ UNCHANGED <<rbvars, dlvars>>
  /\ task.pc = "start_upd" /\ ~IrqPending
  /\ Apply(adc_update_dev_sequence(State))
  /\ Goto("start_run")
  /\ gh' = [gh EXCEPT !.hot = Hot(adc_update_list(State))]

\* d->running = 1
TaskStartRun ==
  /\ UNCHANGED <<rbvars, dlvars>>
  /\ task.pc = "start_run" /\ ~IrqPending
  /\ Apply(start_running(State))
  /\ Goto("start_clr")
  /\ UNCHANGED gh

\* DMA_ClearITPendingBit
TaskStartClr ==
  /\ UNCHANGED <<rbvars, dlvars>>
  /\ task.pc = "start_clr" /\ ~IrqPending
  /\ Apply(start_clear(State))
  /\ Goto("start_nvic")
  /\ UNCHANGED gh

\* NVIC_IRQChannelCmd = ENABLE; NVIC_Init
TaskStartNvic ==
  /\ UNCHANGED <<rbvars, dlvars>>
  /\ task.pc = "start_nvic" /\ ~IrqPending
  /\ Apply(start_nvic(State))
  /\ Goto("start_arm")
  /\ UNCHANGED gh

\* the trigger, or the software start of the first conversion
TaskStartArm ==
  /\ UNCHANGED <<rbvars, dlvars>>
  /\ task.pc = "start_arm" /\ ~IrqPending
  /\ Apply(start_arm(State))
  /\ Goto("ret")
  /\ UNCHANGED gh

(***************************************************************************)
(* Task context: stop of a channel.                                        *)
(***************************************************************************)
TaskStop(id) ==
  /\ UNCHANGED <<rbvars, dlvars>>
  /\ task.pc = "idle" /\ ~IrqPending /\ gh.ops < MaxOps
  /\ Apply(stop_pending(State, id))
  /\ task' = [pc |-> "stop_inact", op |-> "stop", id |-> id, count |-> 0,
              depth |-> 0, f |-> 0, ret |-> 0, err |-> "none",
              preempted |-> FALSE,
              snap |-> Snap]
  /\ gh' = [gh EXCEPT !.ops = @ + 1, !.c[id].stopReq = TRUE]

TaskStopInact ==
  /\ UNCHANGED <<rbvars, dlvars>>
  /\ task.pc = "stop_inact" /\ ~IrqPending
  /\ Apply(stop_inactivate(State, task.id))
  /\ Goto("stop_test")
  /\ UNCHANGED gh

\* if( d->ch_active == 0 )
TaskStopTest ==
  /\ UNCHANGED <<rbvars, dlvars>>
  /\ task.pc = "stop_test" /\ ~IrqPending
  /\ IF stop_last(State)
       THEN Goto("stop_trig") /\ UNCHANGED gh
       ELSE Goto("ret") /\ gh' = [gh EXCEPT !.c[task.id].stopRet = TRUE]
  /\ UNCHANGED <<ch, d, hw>>

TaskStopTrig ==
  /\ UNCHANGED <<rbvars, dlvars>>
  /\ task.pc = "stop_trig" /\ ~IrqPending
  /\ Apply(stop_trigger(State))
  /\ Goto("stop_nvic")
  /\ UNCHANGED gh

TaskStopNvic ==
  /\ UNCHANGED <<rbvars, dlvars>>
  /\ task.pc = "stop_nvic" /\ ~IrqPending
  /\ Apply(stop_nvic(State))
  /\ Goto("stop_run")
  /\ UNCHANGED gh

TaskStopRun ==
  /\ UNCHANGED <<rbvars, dlvars>>
  /\ task.pc = "stop_run" /\ ~IrqPending
  /\ Apply(stop_running(State))
  /\ Goto("ret")
  /\ gh' = [gh EXCEPT !.c[task.id].stopRet = TRUE]

(***************************************************************************)
(* Task context: platform_adc_set_clock.                                   *)
(***************************************************************************)
\* ADC_TRIG_CFG( adc[ d->seq_id ], DISABLE )
TaskSetClock(f) ==
  /\ UNCHANGED <<rbvars, dlvars>>
  /\ task.pc = "idle" /\ ~IrqPending /\ gh.ops < MaxOps
  /\ Apply(ADC_TRIG_CFG(State, FALSE))
  /\ task' = [pc |-> "clk_mode", op |-> "clock", id |-> 0, count |-> 0,
              depth |-> 0, f |-> f, ret |-> 0, err |-> "none",
              preempted |-> FALSE,
              snap |-> NoSnap]
  /\ gh' = [gh EXCEPT !.ops = @ + 1]

\* the branch on the frequency, ADC_Init, return frequency
TaskClkMode ==
  /\ UNCHANGED <<rbvars, dlvars>>
  /\ task.pc = "clk_mode" /\ ~IrqPending
  /\ clock_divides(task.f)
  /\ Apply(set_clock_mode(State, task.f))
  /\ task' = [task EXCEPT !.pc = "ret", !.ret = clock_result(task.f)]
  /\ UNCHANGED gh

\* The same statements for a frequency whose period is 0: the division of
\* the returned frequency is one by zero, which the core either discards
\* (the call returns) or traps (the call does not return).
TaskClkDivZero ==
  /\ UNCHANGED <<rbvars, dlvars>>
  /\ task.pc = "clk_mode" /\ ~IrqPending
  /\ ~clock_divides(task.f)
  /\ Apply(set_clock_mode(State, task.f))
  /\ \/ \E r \in DivByZeroResults : task' = [task EXCEPT !.pc = "ret", !.ret = r]
     \/ task' = [task EXCEPT !.pc = "fault"]
  /\ UNCHANGED gh

(***************************************************************************)
(* Task context: the return of a call, and the drain of a sample buffer.   *)
(***************************************************************************)
TaskReturn ==
  /\ UNCHANGED <<rbvars, dlvars>>
  /\ task.pc = "ret" /\ ~IrqPending
  /\ task' = IdleTask
  /\ UNCHANGED <<ch, d, hw, gh>>

TaskDrain(id) ==
  /\ UNCHANGED <<rbvars, dlvars>>
  /\ task.pc = "idle" /\ ~IrqPending
  /\ ~rbuff_is_empty(ch[id].buf)
  /\ ch' = [ch EXCEPT ![id].buf = rbuff_pop_advance(@)]
  /\ gh' = [gh EXCEPT !.c[id].drained = Append(@, rbuff_pop_read(ch[id].buf)),
                       !.c[id].midDrain = @ \/ id \in d.ch_active]
  /\ UNCHANGED <<d, hw, task>>

(***************************************************************************)
(* The conversion hardware.                                                *)
(***************************************************************************)
\* An edge of the trigger timer starts a scan while the trigger is enabled.
TimerTrigger ==
  /\ UNCHANGED <<rbvars, dlvars>>
  /\ ~IrqPending
  /\ hw.trig /\ ~hw.conv
  /\ hw' = [hw EXCEPT !.conv = TRUE]
  /\ UNCHANGED <<ch, d, task, gh>>

\* The sample the hardware converts at scan position i of scan n.
Converted(i, n) == IF i <= Len(hw.rank) THEN <<hw.rank[i], n>> ELSE <<-1, n>>

\* A scan ends: the DMA stream has moved its samples to sample_buf and
\* raises transfer complete.
ScanComplete ==
  /\ UNCHANGED <<rbvars, dlvars>>
  /\ ~IrqPending
  /\ hw.conv /\ hw.dmacmd /\ hw.dmaLen > 0
  /\ gh.scanNo < MaxScans
  /\ hw' = [hw EXCEPT !.conv = FALSE, !.tcif = TRUE]
  /\ d' = [d EXCEPT !.sample_buf =
             [i \in 1..NUM_ADC |->
                IF i <= hw.dmaLen THEN Converted(i, gh.scanNo + 1) ELSE @[i]]]
  /\ gh' = [gh EXCEPT !.scanNo = @ + 1]
  /\ UNCHANGED <<ch, task>>

\* The scan list positions that hold channel id.
Positions(id) == {i \in 1..d.seq_len : d.ch_state[i] = id}

\* The completion interrupt: the whole of DMA2_Stream0_IRQHandler.
Handler ==
  /\ UNCHANGED <<rbvars, dlvars>>
  /\ IrqPending
  /\ Apply(DMA2_Stream0_IRQHandler(State))
  /\ gh' = [gh EXCEPT
       !.hcount = @ + 1,
       !.hot = IF HandlerScan(State).d.running
                 THEN Hot(adc_update_list(HandlerScan(State))) ELSE @,
       !.c = [id \in Channels |->
                IF Positions(id) = {} THEN [@[id] EXCEPT !.hr = @ + 1]
                ELSE LET i == CHOOSE i \in Positions(id) : TRUE
                     IN [@[id] EXCEPT
                           !.hr = @ + 1,
                           !.dlv = Append(@, d.sample_buf[i]),
                           !.overflow = @ \/ (Queues(ch[id])
                                              /\ rbuff_is_full(ch[id].buf))]]]
  /\ task' = [task EXCEPT !.preempted = @ \/ task.pc # "idle"]

Next ==
  \/ \E id \in Channels, count \in Counts, depth \in Depths :
       TaskStart(id, count, depth)
  \/ TaskStartSeq
  \/ TaskStartUpd
  \/ TaskStartRun
  \/ TaskStartClr
  \/ TaskStartNvic
  \/ TaskStartArm
  \/ \E id \in Channels : TaskStop(id)
  \/ TaskStopInact
  \/ TaskStopTest
  \/ TaskStopTrig
  \/ TaskStopNvic
  \/ TaskStopRun
  \/ \E f \in Frequencies : TaskSetClock(f)
  \/ TaskClkMode
  \/ TaskReturn
  \/ \E id \in Channels : TaskDrain(id)
  \/ TimerTrigger
  \/ ScanComplete
  \/ Handler

Spec == Init /\ [][Next]_vars

InitSpecRB == InitRB /\ InitADC /\ DelayParked

SpecRB == InitSpecRB /\ [][NextRB]_vars

(***************************************************************************)
(* The ADC device left to run: the task starts channels and drains their   *)
(* buffers, sets the clock only on the idle device and stops nothing.  A   *)
(* call in progress runs on, the trigger timer keeps ticking, a scan that  *)
(* has started ends, and a pending, enabled interrupt is taken.            *)
(***************************************************************************)
ClkIdle == ~d.running /\ \E f \in Frequencies : TaskSetClock(f)

\* The statements of a call after its first.
TaskRun ==
  \/ TaskStartSeq \/ TaskStartUpd \/ TaskStartRun \/ TaskStartClr
  \/ TaskStartNvic \/ TaskStartArm \/ TaskClkMode \/ TaskReturn

NextLive ==
  \/ \E id \in Channels, count \in Counts, depth \in Depths :
       TaskStart(id, count, depth)
  \/ TaskStartSeq
  \/ TaskStartUpd
  \/ TaskStartRun
  \/ TaskStartClr
  \/ TaskStartNvic
  \/ TaskStartArm
  \/ ClkIdle
  \/ TaskClkMode
  \/ TaskReturn
  \/ \E id \in Channels : TaskDrain(id)
  \/ TimerTrigger
  \/ ScanComplete
  \/ Handler

\* WF_vars(Handler), with ENABLED <<Handler>>_vars written as the guard of
\* Handler, IrqPending, which it is equal to.
HandlerFair == []<>(~IrqPending) \/ []<><<Handler>>_vars

Fairness ==
  /\ WF_vars(TaskRun)
  /\ WF_vars(TimerTrigger)
  /\ WF_vars(ScanComplete)
  /\ HandlerFair

SpecLive == Init /\ [][NextLive]_vars /\ Fairness

(***************************************************************************)
(* delay_ms and SysTick_Handler.  The counter is TickBits wide instead of  *)
(* 32 bits; delay_ms advances statement by statement, and a tick may come  *)
(* between any two of its statements, at most one between two consecutive  *)
(* statements (a statement is much shorter than a tick period).  WFI puts  *)
(* the core to sleep until the next tick.                                  *)
(***************************************************************************)
\* Width of the tick counter in the model.
TickBits == 3

SYSTICKHZ == 1000

SYSTICKMS == 1000 \div SYSTICKHZ

\* Number of values of the counter: it wraps from TickRange - 1 to 0.
TickRange == Pow2(TickBits)

Ticks == 0..(TickRange - 1)

\* The history counts the ticks since the call up to this number.
MaxElapsed == 2 * TickRange

Asleep == dly.pc \in {"sleep1", "sleep2"}

\* ms *= SYSTICKMS
delay_scale(ms) == (ms * SYSTICKMS) % TickRange

\* ms += systick
delay_target(ms, tick) == (ms + tick) % TickRange

\* while (ms < systick): the counter has to wrap before it reaches ms
delay_wrapped(ms, tick) == ms < tick

\* while (ms > systick)
delay_pending(ms, tick) == ms > tick

DelayGoto(pc) == dly' = [dly EXCEPT !.pc = pc, !.late = FALSE]

DelayCall(ms) ==
  /\ UNCHANGED <<rbvars, adcvars>>
  /\ dly.pc = "idle"
  /\ dly' = [pc |-> "add", ms |-> delay_scale(ms), req |-> ms, elapsed |-> 0,
             late |-> FALSE]
  /\ UNCHANGED systick

DelayAdd ==
  /\ UNCHANGED <<rbvars, adcvars>>
  /\ dly.pc = "add"
  /\ dly' = [dly EXCEPT !.pc = "test1", !.ms = delay_target(@, systick),
                         !.late = FALSE]
  /\ UNCHANGED systick

DelayTest1 ==
  /\ UNCHANGED <<rbvars, adcvars>>
  /\ dly.pc = "test1"
  /\ DelayGoto(IF delay_wrapped(dly.ms, systick) THEN "wfi1" ELSE "test2")
  /\ UNCHANGED systick

\* NVIC_SystemLPConfig; __WFI()
DelayWfi1 ==
  /\ UNCHANGED <<rbvars, adcvars>>
  /\ dly.pc = "wfi1"
  /\ DelayGoto("sleep1")
  /\ UNCHANGED systick

DelayTest2 ==
  /\ UNCHANGED <<rbvars, adcvars>>
  /\ dly.pc = "test2"
  /\ DelayGoto(IF delay_pending(dly.ms, systick) THEN "wfi2" ELSE "ret")
  /\ UNCHANGED systick

DelayWfi2 ==
  /\ UNCHANGED <<rbvars, adcvars>>
  /\ dly.pc = "wfi2"
  /\ DelayGoto("sleep2")
  /\ UNCHANGED systick

DelayReturn ==
  /\ UNCHANGED <<rbvars, adcvars>>
  /\ dly.pc = "ret"
  /\ dly' = IdleDelay
  /\ UNCHANGED systick

\* systick++, and the return from the interrupt wakes a sleeping core.
SysTick_Handler ==
  /\ UNCHANGED <<rbvars, adcvars>>
  /\ dly.pc = "idle" \/ Asleep \/ ~dly.late
  /\ systick' = (systick + 1) % TickRange
  /\ dly' = [dly EXCEPT
       !.pc = IF @ = "sleep1" THEN "test1"
              ELSE IF @ = "sleep2" THEN "test2" ELSE @,
       !.elapsed = IF dly.pc = "idle" \/ @ = MaxElapsed THEN @ ELSE @ + 1,
       !.late = dly.pc # "idle"]

\* The statements of delay_ms after its first.
DelayRun ==
  \/ DelayAdd \/ DelayTest1 \/ DelayWfi1 \/ DelayTest2 \/ DelayWfi2
  \/ DelayReturn

NextDelay ==
  \/ \E ms \in Ticks : DelayCall(ms)
  \/ DelayAdd
  \/ DelayTest1
  \/ DelayWfi1
  \/ DelayTest2
  \/ DelayWfi2
  \/ DelayReturn
  \/ SysTick_Handler

InitDelay ==
  /\ InitADC /\ RBParked
  /\ systick \in Ticks
  /\ dly = IdleDelay

SpecDelay == InitDelay /\ [][NextDelay]_vars

\* A call in progress runs on, and ticks keep occurring.
DelayFairness == WF_vars(DelayRun) /\ WF_vars(SysTick_Handler)

SpecDelayLive == InitDelay /\ [][NextDelay]_vars /\ DelayFairness

(***************************************************************************)
(* The ADC device with calls that name a channel id outside 0..NUM_ADC-1.  *)
(***************************************************************************)
\* The channel ids past the last channel that the calls are made with.
OutOfRange == NUM_ADC..(NUM_ADC + MaxBeyond - 1)

\* s->op_pending = 0 through adc_get_ch_state( id ) for an id past the
\* channel table: a store outside the table.  It may hit nothing the device
\* reads, or a byte of the device state behind the table.
WildStore(st) ==
  {st, [st EXCEPT !.d.running = FALSE], [st EXCEPT !.d.seq_len = 0]}

\* platform_adc_stop( id ) for such an id: no statement tests the id.
TaskStopOut(id) ==
  /\ UNCHANGED <<rbvars, dlvars>>
  /\ task.pc = "idle" /\ ~IrqPending /\ gh.ops < MaxOps
  /\ \E w \in WildStore(State) :
       LET s2 == stop_inactivate(w, id)
       IN Apply(IF stop_last(s2)
                  THEN stop_running(stop_nvic(stop_trigger(s2)))
                  ELSE s2)
  /\ task' = [pc |-> "ret", op |-> "stop", id |-> id, count |-> 0,
              depth |-> 0, f |-> 0, ret |-> 0, err |-> "none",
              preempted |-> FALSE, snap |-> Snap]
  /\ gh' = [gh EXCEPT !.ops = @ + 1, !.wild = TRUE]

\* A start request for such an id: the channel set-up rejects it.
TaskStartOut(id) ==
  /\ UNCHANGED <<rbvars, dlvars>>
  /\ task.pc = "idle" /\ ~IrqPending /\ gh.ops < MaxOps
  /\ task' = [pc |-> "ret", op |-> "start", id |-> id, count |-> 0,
              depth |-> 0, f |-> 0, ret |-> 0, err |-> "InvalidChannel",
              preempted |-> FALSE, snap |-> NoSnap]
  /\ gh' = [gh EXCEPT !.ops = @ + 1]
  /\ UNCHANGED <<ch, d, hw>>

NextId ==
  \/ Next
  \/ \E id \in OutOfRange : TaskStopOut(id)
  \/ \E id \in OutOfRange : TaskStartOut(id)

SpecId == Init /\ [][NextId]_vars

(***************************************************************************)
(* platform_adc_set_clock over a range of frequencies: one call on the     *)
(* device as adcs_init leaves it, or as an earlier set_clock( TestFreq )   *)
(* leaves it.                                                              *)
(***************************************************************************)
ClockInputs ==
  (0..ClkSlow) \cup {TestFreq}
    \cup ((BaseClock - ClkNear)..(BaseClock + ClkNear))

InitClk ==
  /\ RBParked
  /\ DelayParked
  /\ \E prev \in Frequencies :
       LET st == set_clock_mode(InitState, prev)
       IN ch = st.ch /\ d = st.d /\ hw = st.hw
  /\ task = IdleTask
  /\ gh = InitGhost

ClkCall == gh.ops = 0 /\ \E f \in ClockInputs : TaskSetClock(f)

NextClk ==
  \/ ClkCall
  \/ TaskClkMode
  \/ TaskClkDivZero
  \/ TaskReturn

SpecClk == InitClk /\ [][NextClk]_vars

(***************************************************************************)
(* Properties of the ring buffer (checked under SpecRB).                   *)
(***************************************************************************)
IsPrefix(a, b) == Len(a) <= Len(b) /\ \A i \in 1..Len(a) : a[i] = b[i]

\* Every push so far came before the first pop had completed.
PushesThenPops == Len(rbHist.pushed) = rbHist.peak

\* C4: n <= N-1 pushes on an empty buffer of size N are all accepted, and
\* the n pops that follow return the pushed bytes in push order, nothing
\* lost and nothing twice, and leave the buffer empty.
C4_PushPopRoundTrip ==
  /\ rbHist.lastPush = "full" => rbHist.rejectedAt = rb.size - 1
  /\ PushesThenPops =>
       /\ IsPrefix(rbHist.popped, rbHist.pushed)
       /\ (rbTask.pc = "idle" /\ Len(rbHist.popped) = Len(rbHist.pushed))
            => (rbuff_is_empty(rb) /\ rbHist.popped = rbHist.pushed)
       /\ (rbTask.pc = "idle" /\ rbuff_is_empty(rb))
            => rbHist.popped = rbHist.pushed

\* N-1 bytes were pushed into the largest buffer, then N-1 popped.
C4_Witness ==
  /\ rb.size = MaxRBSize
  /\ PushesThenPops
  /\ rbHist.attempts = rb.size - 1
  /\ Len(rbHist.pushed) = rb.size - 1
  /\ Len(rbHist.popped) = rb.size - 1
  /\ rbTask.pc = "idle"

\* C5: successful pops never outnumber successful pushes, and a push on a
\* full buffer returns false and changes neither top, bottom nor the data.
C5_PopsWithinPushes_FullPushFails ==
  /\ [](Len(rbHist.popped) + (IF rbTask.pc = "idle" THEN 0 ELSE 1)
          <= Len(rbHist.pushed))
  /\ [][(rbHist'.attempts = rbHist.attempts + 1 /\ rbuff_is_full(rb))
          => (rb' = rb /\ rbHist'.pushRet = "false"
              /\ rbHist'.pushed = rbHist.pushed)]_vars

\* C6: with pushes of the interrupt coming between any two statements of
\* the task's pop, the bytes popped so far followed by the unread bytes are
\* exactly the bytes pushed, in push order; the byte a pop holds is the
\* oldest unread one.
C6_SpscFifo ==
  /\ rbHist.pushed = rbHist.popped \o rbuff_contents(rb)
  /\ rbTask.pc = "advance" =>
       (~rbuff_is_empty(rb) /\ rbTask.val = rbuff_contents(rb)[1])

\* A pop that a push preempted has returned its byte, after earlier pops.
C6_Witness ==
  /\ rbHist.lastPop = "byte"
  /\ rbHist.preempted
  /\ rbTask.pc = "idle"
  /\ Len(rbHist.popped) >= 2
  /\ rbHist.lastPush = "ok"

(***************************************************************************)
(* Properties of the ADC device (checked under Spec).                      *)
(***************************************************************************)
Min(a, b) == IF a < b THEN a ELSE b

Range(q) == {q[i] : i \in 1..Len(q)}

NoDuplicates(q) == \A i, j \in 1..Len(q) : q[i] = q[j] => i = j

\* The channel's last start found the device idle, asked for k >= 1 raw
\* samples, and no stop of the channel was requested since.
BoundedIdleStart(id) ==
  /\ gh.c[id].started /\ gh.c[id].idleStart /\ ~gh.c[id].stopReq
  /\ ch[id].reqsamples >= 1 /\ ch[id].logsmoothlen = 0

\* C1: after start(id, count = k, depth = 0) on an idle device, the channel
\* is active until the handler run of its k-th completion and inactive from
\* then on, samples_delivered is the number of completions up to k, and the
\* channel is delivered no more than k samples.
C1_StopsAfterKthSample ==
  \A id \in Channels :
    BoundedIdleStart(id) =>
      /\ (id \in d.ch_active) <=> (gh.c[id].hr < ch[id].reqsamples)
      /\ ch[id].samples_delivered = Min(gh.c[id].hr, ch[id].reqsamples)
      /\ Len(gh.c[id].dlv) = Min(gh.c[id].hr, ch[id].reqsamples)

\* A channel started for MaxCount samples has seen one completion more than
\* that, the later ones being those of another channel.
C1_Witness ==
  \E id \in Channels :
    /\ BoundedIdleStart(id)
    /\ ch[id].reqsamples = MaxCount
    /\ gh.c[id].hr > MaxCount
    /\ id \notin d.ch_active
    /\ ch[id].samples_delivered = MaxCount

\* What the handler delivers into: latest value, freshness, the write side
\* of the sample buffer.
Delivered(c, id) ==
  <<c[id].latest_value, c[id].value_fresh, c[id].buf.top, c[id].buf.data>>

\* C2: once stop(id) has returned, no completion handler run delivers a
\* sample to channel id until id is started again.
C2_NoSampleAfterStop ==
  [][\A id \in Channels :
       (gh.c[id].stopRet /\ gh'.c[id].stopRet)
         => Delivered(ch', id) = Delivered(ch, id)]_vars

\* The statement of platform_adc_stop the task executes in this step, if any.
StopStep ==
  \/ task.pc = "idle" /\ task'.op = "stop"
  \/ task.op = "stop" /\ task.pc # "ret" /\ task'.pc # task.pc

HandlerStep == gh'.hcount = gh.hcount + 1

\* The next scan is armed: by the trigger when clocked, by a software start
\* otherwise.
Armed(st) == IF st.d.clocked THEN st.hw.trig ELSE st.hw.conv

\* C3: with channels A and B active, a stop of A leaves B as it would be
\* without the stop.  A statement of a task-context stop of A changes
\* nothing of B, of the scan list, or of running, trigger and interrupt
\* enable; a handler run gives B the state and the active flag it would
\* give B if A did not reach its count, and leaves an active B in the scan
\* list of a running device with the next scan armed.
C3_StopLeavesOtherChannel ==
  /\ [][StopStep =>
          \A B \in d.ch_active \ {task'.id} :
            /\ ch'[B] = ch[B]
            /\ B \in d'.ch_active
            /\ d'.ch_state = d.ch_state
            /\ d'.running = d.running
            /\ hw'.trig = hw.trig
            /\ hw'.nvic = hw.nvic]_vars
  /\ [][HandlerStep =>
          \A A \in d.ch_active : \A B \in d.ch_active \ {A} :
            LET alt == DMA2_Stream0_IRQHandler(
                         [State EXCEPT !.ch[A].freerunning = TRUE])
            IN /\ ch'[B] = alt.ch[B]
               /\ (B \in d'.ch_active) <=> (B \in alt.d.ch_active)
               /\ B \in d'.ch_active =>
                    /\ d'.running
                    /\ B \in Range(d'.ch_state)
                    /\ Armed([ch |-> ch', d |-> d', hw |-> hw'])]_vars

LastScan(q) == IF q = <<>> THEN 0 ELSE q[Len(q)][2]

\* A reached its count in the handler while B was active, and B has been
\* delivered the sample of a later scan.
C3_Witness ==
  \E A \in Channels : \E B \in Channels \ {A} :
    /\ gh.c[A].started /\ ~gh.c[A].stopReq /\ A \notin d.ch_active
    /\ gh.c[A].dlv # <<>>
    /\ B \in d.ch_active /\ B \in Range(d.ch_state) /\ d.running
    /\ LastScan(gh.c[B].dlv) > LastScan(gh.c[A].dlv)
    /\ Len(gh.c[B].dlv) >= 2

\* The channel's last start asked for k > 1 raw samples with its buffer
\* empty, no sample was refused by a full buffer, no stop of the channel was
\* requested, and the channel is inactive again: it has reached its count.
StreamCompleted(id) ==
  /\ gh.c[id].started /\ ~gh.c[id].stopReq
  /\ ch[id].reqsamples > 1 /\ ch[id].logsmoothlen = 0
  /\ gh.c[id].emptyAtStart /\ ~gh.c[id].overflow
  /\ id \notin d.ch_active

\* The samples are channel id's, of strictly later and later scans.
InCompletionOrder(q, id) ==
  /\ \A i \in 1..Len(q) : q[i] # NoSample /\ q[i][1] = id
  /\ \A i \in 1..(Len(q) - 1) : q[i][2] < q[i + 1][2]

\* C7: a streaming channel (count k > 1, depth 0, buffer with room) that
\* has reached its count was delivered exactly k samples, one per handled
\* completion; the samples drained so far followed by those still queued
\* are these k samples in completion order, whether or not the task
\* drained between completions.
C7_StreamDrainsAllInOrder ==
  \A id \in Channels :
    StreamCompleted(id) =>
      /\ Len(gh.c[id].dlv) = ch[id].reqsamples
      /\ gh.c[id].drained \o rbuff_contents(ch[id].buf) = gh.c[id].dlv
      /\ InCompletionOrder(gh.c[id].dlv, id)

\* A channel started for MaxCount samples is complete, the device is idle,
\* the task drained while the channel was active and has drained everything.
C7_Witness ==
  \E id \in Channels :
    /\ StreamCompleted(id)
    /\ ch[id].reqsamples = MaxCount
    /\ ~d.running
    /\ gh.c[id].midDrain
    /\ Len(gh.c[id].drained) = MaxCount
    /\ rbuff_is_empty(ch[id].buf)

\* What C8 asks of a stop of channel id that takes the device from state
\* "before" (trigger, interrupt enable, running) to state st.
StopContract(st, id, before) ==
  /\ id \notin st.d.ch_active
  /\ ~st.ch[id].op_pending
  /\ IF st.d.ch_active = {}
       THEN ~st.hw.trig /\ ~st.hw.nvic /\ ~st.d.running
       ELSE /\ st.hw.trig = before.trig
            /\ st.hw.nvic = before.nvic
            /\ st.d.running = before.running

\* C8: stop(id) marks the channel inactive and clears op_pending; as the
\* last active channel's stop it disables trigger and completion interrupt
\* and clears running, otherwise it changes none of the three.  Checked of
\* platform_adc_stop called in any reachable state (as the handler calls
\* it), and of every task-context stop that no handler run preempted, when
\* it returns.
C8_StopContract ==
  /\ \A id \in Channels : StopContract(platform_adc_stop(State, id), id, Snap)
  /\ (task.op = "stop" /\ task.pc = "ret" /\ ~task.preempted)
       => StopContract(State, task.id, task.snap)

\* A task-context stop of the last active channel of a clocked, running
\* device has returned.
C8_Witness ==
  /\ task.op = "stop" /\ task.pc = "ret" /\ ~task.preempted
  /\ task.snap.trig /\ task.snap.nvic /\ task.snap.running
  /\ d.ch_active = {}
  /\ ~d.running

\* The task moves from a statement of a start to the start's return.
StartReturns == task.op = "start" /\ task.pc # "ret" /\ task'.pc = "ret"

\* C9: a start of an already active channel is idempotent: no scan list
\* (and no programmed sequence) holds a channel twice, no statement of a
\* start stops a running device, the device is running when the start
\* returns, and the channel then has the count and depth of that call.
C9_RestartIdempotent ==
  /\ [](NoDuplicates(d.ch_state) /\ NoDuplicates(hw.rank))
  /\ [][(task'.op = "start" /\ task' # task /\ gh'.hcount = gh.hcount)
          => (d.running => d'.running)]_vars
  /\ [][StartReturns =>
          /\ d'.running
          /\ ch'[task.id].reqsamples = task.count
          /\ ch'[task.id].logsmoothlen = task.depth
          /\ ch'[task.id].freerunning = (task.count = 0)]_vars

\* A start of a channel that was active, and was in the scan list after a
\* completion, has returned with a different count than the channel has
\* delivered under.
C9_Witness ==
  /\ task.op = "start" /\ task.pc = "ret"
  /\ gh.c[task.id].restart
  /\ gh.hcount >= 1
  /\ task.id \in d.ch_active
  /\ task.id \in Range(d.ch_state)
  /\ d.running
  /\ ch[task.id].reqsamples = task.count
  /\ task.count = MaxCount

\* C10: set_clock(0) selects the software trigger (clocked false, trigger
\* edge of the configuration None) and returns 0; set_clock(f), f > 0,
\* selects the timer trigger (clocked true); the choice is that of f in
\* every reachable state, whatever the number of active channels.
C10_ClockModeFromFrequency ==
  /\ \A f \in Frequencies :
       LET st == set_clock_mode(State, f)
       IN /\ st.d.clocked = (f > 0)
          /\ f = 0 => st.hw.cfgEdge = "None"
  /\ (task.op = "clock" /\ task.pc = "ret") =>
       /\ d.clocked = (task.f > 0)
       /\ task.f = 0 => (hw.cfgEdge = "None" /\ task.ret = 0)
       /\ (task.f = 0 /\ ~task.preempted) => ~hw.trig

\* set_clock(0) has returned on a running device with every channel active.
C10_Witness ==
  /\ task.op = "clock" /\ task.pc = "ret"
  /\ task.f = 0 /\ task.ret = 0
  /\ ~d.clocked
  /\ d.ch_active = Channels
  /\ d.running

(***************************************************************************)
(* Properties of platform_adc_set_clock (checked under SpecClk).           *)
(***************************************************************************)
\* set_clock( f ) has run its last statement (returned or trapped).
ClockDone == task.op = "clock" /\ task.pc \in {"ret", "fault"}

\* C11: for 1 <= f <= base clock, set_clock(f) programs prescaler - 1 and
\* period - 1 with prescaler = floor((base / f) / 65536) + 1 and
\* period = (base / f) / prescaler, both fit the 16-bit timer registers,
\* and the call returns base / prescaler / period, which is greater than 0.
C11_ClockNumerics ==
  (ClockDone /\ task.f >= 1 /\ task.f <= BaseClock) =>
    LET p0 == BaseClock \div task.f
        psc == (p0 \div 65536) + 1
        per == p0 \div psc
    IN /\ task.pc = "ret"
       /\ hw.timPrescaler = psc - 1
       /\ hw.timPeriod = per - 1
       /\ hw.timPrescaler \in 0..65535
       /\ hw.timPeriod \in 0..65535
       /\ task.ret = (BaseClock \div psc) \div per
       /\ task.ret > 0

\* set_clock(f) has returned for the slowest frequency, which needs a
\* prescaler above 1, and for the base clock itself.
C11_Witness ==
  /\ task.op = "clock" /\ task.pc = "ret"
  /\ task.f = 1
  /\ hw.timPrescaler > 0
  /\ task.ret >= 1

\* C12: set_clock(f) with f above the base clock (period 0) returns the
\* error ClockUnachievable: it does not trap on a division by zero,
\* programs no period of 0 - 1, and leaves clocked, the trigger edge of the
\* configuration and the timer as they were.
C12_UnreachableClockRejected ==
  [][(task.pc = "clk_mode" /\ task.f > BaseClock /\ task'.pc # "clk_mode")
       => /\ task'.pc = "ret"
          /\ task'.err = "ClockUnachievable"
          /\ hw'.timPeriod = hw.timPeriod
          /\ hw'.timPrescaler = hw.timPrescaler
          /\ hw'.cfgEdge = hw.cfgEdge
          /\ d'.clocked = d.clocked]_vars

(***************************************************************************)
(* Properties of calls with a channel id out of range (checked under       *)
(* SpecId).                                                                *)
(***************************************************************************)
\* C13: a start or stop with a channel id outside 0..NUM_ADC-1 is rejected
\* with InvalidChannel and changes no channel state and no device state,
\* and no scan list the handler walks holds such an id.
C13_InvalidChannelRejected ==
  /\ [][(task.pc = "idle" /\ task'.op \in {"start", "stop"}
            /\ task'.id \notin Channels)
          => /\ task'.pc = "ret"
             /\ task'.err = "InvalidChannel"
             /\ ch' = ch /\ d' = d /\ hw' = hw]_vars
  /\ [](\A i \in 1..Len(d.ch_state) : d.ch_state[i] \in Channels)

(***************************************************************************)
(* Further properties of the ADC device (checked under Spec).              *)
(***************************************************************************)
\* C14: value_fresh is false and there is no latest value from init until
\* a completion whose scan list includes the channel: only such a handler
\* run changes either, and whatever read_latest(id) reports is a sample the
\* hardware converted for channel id, never a stale or zero value.
C14_NoValueBeforeFirstCompletion ==
  /\ \A id \in Channels : read_latest(State, id) = NoSample
                             /\ ch[id].latest_value = NoSample
  /\ [][\A id \in Channels :
          (ch'[id].value_fresh # ch[id].value_fresh
             \/ ch'[id].latest_value # ch[id].latest_value)
            => (HandlerStep /\ id \in Range(d.ch_state))]_vars
  /\ [](\A id \in Channels :
          LET v == read_latest(State, id)
          IN v # NoSample => (v[1] = id /\ v[2] \in 1..gh.scanNo))

\* A started channel's first scan has completed and its handler has not run
\* yet: the channel still reports no value, while the other channel has
\* never been started.
C14_Witness ==
  \E id \in Channels :
    /\ id \in d.ch_active /\ d.running
    /\ gh.scanNo = 1 /\ gh.hcount = 0 /\ hw.tcif
    /\ read_latest(State, id) = NoSample
    /\ d.sample_buf[1] # NoSample

\* Everything queued for the channel since its last start, which found the
\* buffer empty.
QueuedSinceStart(id) == gh.c[id].drained \o rbuff_contents(ch[id].buf)

\* C15: for a channel started with smoothing depth dep > 0, smooth_ready is
\* false during the first 2^dep - 1 completions, a handler run that finds
\* the channel not ready pushes nothing into its buffer, and nothing is
\* queued before 2^dep raw samples were accumulated.
C15_NothingQueuedWhileWarmingUp ==
  /\ [](\A id \in Channels :
          (gh.c[id].started /\ ch[id].logsmoothlen > 0) =>
            /\ Len(gh.c[id].dlv) < Pow2(ch[id].logsmoothlen)
                 => ~ch[id].smooth_ready
            /\ ch[id].smooth_ready
                 => ch[id].smooth_cnt >= Pow2(ch[id].logsmoothlen)
            /\ (gh.c[id].emptyAtStart /\ QueuedSinceStart(id) # <<>>)
                 => ch[id].smooth_cnt >= Pow2(ch[id].logsmoothlen))
  /\ [][HandlerStep =>
          \A id \in Channels :
            (ch[id].logsmoothlen > 0 /\ ~ch[id].smooth_ready)
              => ch'[id].buf = ch[id].buf]_vars

\* A streaming channel of the largest depth has seen one completion less
\* than its window holds: it is not ready and its buffer is empty.
C15_Witness ==
  \E id \in Channels :
    /\ gh.c[id].started /\ gh.c[id].emptyAtStart
    /\ ch[id].logsmoothlen = MaxDepth
    /\ ch[id].reqsamples = MaxCount
    /\ Len(gh.c[id].dlv) = Pow2(MaxDepth) - 1
    /\ ~ch[id].smooth_ready
    /\ rbuff_is_empty(ch[id].buf)
    /\ id \in d.ch_active

\* C16: the handler never stops a free-running channel (count 0): a
\* handler run leaves it active and the device running, it is active after
\* any number of completions unless a stop of it was requested, and only
\* the inactivate statement of a task-context stop of that channel takes
\* it out of the active set.
C16_FreeRunningNeverStoppedByHandler ==
  /\ [][HandlerStep =>
          \A id \in d.ch_active :
            ch[id].freerunning => (id \in d'.ch_active /\ d'.running)]_vars
  /\ [](\A id \in Channels :
          (gh.c[id].started /\ ch[id].reqsamples = 0 /\ ~gh.c[id].stopReq)
            => /\ ch[id].freerunning
               /\ id \in d.ch_active
               /\ gh.c[id].hr >= 1 => d.running)
  /\ [][\A id \in d.ch_active :
          (ch[id].freerunning /\ id \notin d'.ch_active)
            => (task.op = "stop" /\ task.id = id /\ task.pc = "stop_inact"
                /\ task'.pc = "stop_test")]_vars

\* A free-running channel is active on the running device after three
\* completions, the other channel having reached its count meanwhile.
C16_Witness ==
  \E id \in Channels : \E o \in Channels \ {id} :
    /\ gh.c[id].started /\ ch[id].freerunning /\ ~gh.c[id].stopReq
    /\ Len(gh.c[id].dlv) >= 3
    /\ id \in d.ch_active /\ d.running
    /\ gh.c[o].started /\ ~gh.c[o].stopReq /\ o \notin d.ch_active

\* The task is between the first and the last write of a start or stop:
\* inside platform_adc_stop before its last statement has run, or inside
\* platform_adc_start_sequence with the start-up of the idle device begun.
BetweenWrites ==
  \/ task.op = "stop" /\ task.pc = "stop_inact"
  \/ task.op = "stop" /\ task.pc = "stop_test" /\ stop_last(State)
  \/ task.op = "stop" /\ task.pc \in {"stop_trig", "stop_nvic", "stop_run"}
  \/ task.op = "start" /\ task.pc = "start_seq" /\ start_needed(State)
  \/ task.op = "start"
       /\ task.pc \in {"start_upd", "start_run", "start_clr", "start_nvic",
                        "start_arm"}

\* C17: the completion handler never runs between the first and the last
\* write of a task-context start or stop.
C17_HandlerExcludedFromTaskSection ==
  [][HandlerStep => ~BetweenWrites]_vars

\* C18: a rebuild of the scan sequence with no channel active leaves the
\* device disabled: no conversion count of 0 and no DMA length of 0 is ever
\* programmed, and a handler run that ends with no channel active leaves
\* the trigger and the DMA service of the ADC off.
C18_ZeroChannelRebuildDisables ==
  /\ [](hw.nbrConv # 0 /\ hw.dmaLen # 0)
  /\ [][(HandlerStep /\ d'.ch_active = {})
          => (~hw'.trig /\ (d'.ch_state = <<>> => ~hw'.dmacmd))]_vars

\* A state the handler or a caller can observe: the task is between calls
\* or at a return, or the completion interrupt is about to be taken.
Observable == task.pc \in {"idle", "ret"} \/ IrqPending

\* C19: in every state the handler or a caller observes, a running device
\* has at least one active channel and a non-empty scan list.
C19_RunningHasActiveChannel ==
  Observable => (d.running => (d.ch_active # {} /\ d.ch_state # <<>>))

\* C20: the idle device (running false) has the trigger and the
\* completion interrupt disabled.
C20_IdleDeviceDisabled ==
  ~d.running => (~hw.trig /\ ~hw.nvic)

\* C21: an inactive channel has op_pending false in every reachable state,
\* the state between the two writes of a stop included: stop clears
\* op_pending first and the active flag second.
C21_InactiveNotPending ==
  /\ \A id \in Channels : id \notin d.ch_active => ~ch[id].op_pending
  /\ (task.op = "stop" /\ task.pc = "stop_inact") => ~ch[task.id].op_pending

\* A stop of a started, active channel is between its two writes.
C21_Witness ==
  /\ task.op = "stop" /\ task.pc = "stop_inact"
  /\ gh.c[task.id].started
  /\ task.id \in d.ch_active
  /\ ~ch[task.id].op_pending

\* C22: a channel with a requested count above 0 never has more samples
\* delivered than requested, whatever the interleaving of completions with
\* drains of its buffer by the task.
C22_DeliveredWithinRequested ==
  \A id \in Channels :
    ch[id].reqsamples > 0 => ch[id].samples_delivered <= ch[id].reqsamples

\* A channel has all MaxCount samples it asked for, the task having drained
\* its buffer while it was active, and handler runs went on after that.
C22_Witness ==
  \E id \in Channels :
    /\ ch[id].reqsamples = MaxCount
    /\ ch[id].samples_delivered = MaxCount
    /\ gh.c[id].midDrain
    /\ gh.c[id].hr > MaxCount

\* A step that runs adc_update_dev_sequence: the handler on a device that is
\* running after its loop, or a start on the idle device.
RebuildStep ==
  \/ HandlerStep /\ d'.running
  \/ ~HandlerStep /\ task.pc = "start_upd" /\ task'.pc = "start_run"

\* The state in which that step enters platform_adc_update_sequence.
RebuildEntry ==
  IF IrqPending THEN adc_update_list(HandlerScan(State))
                ELSE adc_update_list(State)

\* The scan list lists the active channels in strictly ascending id order.
ListsActive(list, len, active) ==
  /\ Len(list) = len /\ len = Cardinality(active)
  /\ \A i \in 1..len : list[i] \in active
  /\ \A i \in 1..len, j \in 1..len : i < j => list[i] < list[j]

\* C23: after every rebuild the programmed conversion count, the DMA transfer
\* length and the scan list length equal the number of channels active at
\* that moment, the channel at scan list index i is programmed at hardware
\* scan position i+1, and the scan list ids are strictly ascending.
C23_RebuildProgramsActiveChannels ==
  [][RebuildStep =>
       /\ ListsActive(d'.ch_state, d'.seq_len, d'.ch_active)
       /\ hw'.nbrConv = Cardinality(d'.ch_active)
       /\ hw'.dmaLen = Cardinality(d'.ch_active)
       /\ hw'.rank = d'.ch_state]_vars

\* A handler run has rebuilt the scan list for both channels.
C23_Witness ==
  /\ gh.hcount >= 1 /\ d.running
  /\ d.ch_active = Channels
  /\ d.ch_state = <<0, 1>> /\ hw.rank = <<0, 1>>
  /\ hw.nbrConv = 2 /\ hw.dmaLen = 2

C25_HandlerTail ==
  [][HandlerStep =>
       IF d'.running
         THEN /\ ListsActive(d'.ch_state, d'.seq_len, d'.ch_active)
              /\ hw'.rank = d'.ch_state
              /\ ~hw'.tcif /\ hw'.dmacmd
              /\ hw'.conv <=> ~d'.clocked
         ELSE /\ d'.ch_state = d.ch_state /\ d'.seq_len = d.seq_len
              /\ hw'.rank = hw.rank /\ hw'.nbrConv = hw.nbrConv
              /\ hw'.dmaLen = hw.dmaLen /\ hw'.dmacmd = hw.dmacmd
              /\ hw'.conv = hw.conv /\ ~hw'.conv]_vars

\* In software-triggered mode the handler has stopped the last channel at
\* its requested count, after runs that rebuilt and started the next scan:
\* the device is idle with no scan started.
C25_Witness ==
  /\ gh.hcount >= 2 /\ ~d.running /\ ~d.clocked /\ ~hw.conv
  /\ task.pc = "idle" /\ d.ch_active = {}
  /\ \E id \in Channels :
       /\ gh.c[id].started /\ ~gh.c[id].stopReq
       /\ ch[id].reqsamples >= 2
       /\ ch[id].samples_delivered = ch[id].reqsamples

\* The handler run has left the channel's buffer as it was.
NotQueued(id) ==
  rbuff_contents(ch'[id].buf) = rbuff_contents(ch[id].buf)

\* The handler run has queued the sample of scan list position i in the
\* channel's buffer (a full buffer takes no sample).
QueuedAt(id, i) ==
  rbuff_contents(ch'[id].buf) =
    IF rbuff_is_full(ch[id].buf)
      THEN rbuff_contents(ch[id].buf)
      ELSE Append(rbuff_contents(ch[id].buf), d.sample_buf[i])

\* C26: on a completion, a channel past its smoothing warm-up with a
\* requested count of 1 keeps the sample as its latest value (nothing is
\* queued, value_fresh is true afterwards); with any other requested count,
\* 0 included, the sample is queued in the channel's own buffer and
\* value_fresh is false afterwards.
C26_QueuedUnlessSingle ==
  [][HandlerStep =>
       \A i \in 1..d.seq_len :
         LET id == d.ch_state[i]
         IN ~WarmingUp(ch[id]) =>
              IF ch[id].reqsamples = 1
                THEN NotQueued(id) /\ ch'[id].value_fresh
                ELSE QueuedAt(id, i) /\ ~ch'[id].value_fresh]_vars

\* The state of the handler before the pass for scan list position i.
RECURSIVE LoopTo(_, _, _)
LoopTo(st, i, n) ==
  IF i >= n THEN st ELSE LoopTo(HandlerBody(st, i), i + 1, n)

\* The state in which the handler tests the count of position i.
AtCountTest(i) == HandlerSample(LoopTo([State EXCEPT !.hw.tcif = FALSE], 1, i), i)

\* The handler calls platform_adc_stop in the pass for position i.
StopsAt(i) == count_reached(AtCountTest(i), d.ch_state[i])

\* Every entry of the scan list has had its sample, once.
EveryEntryOnce ==
  \A i \in 1..d.seq_len :
    LET id == d.ch_state[i]
    IN /\ ch'[id].samples_delivered = ch[id].samples_delivered + 1
       /\ ch'[id].latest_value = d.sample_buf[i]

\* A stop of a channel that is inactive already leaves the state as it is.
SecondStopIdle ==
  \A i \in 1..d.seq_len :
    LET id == d.ch_state[i]
        c == AtCountTest(i)
    IN (StopsAt(i) /\ id \notin c.d.ch_active) => platform_adc_stop(c, id) = c

\* C27: a handler run that stops a channel inside its loop still gives every
\* entry of the scan list its sample exactly once, a stop of a channel that
\* is inactive already changes nothing, and the device is running after the
\* run exactly when a channel is still active.
C27_StopInsideLoop ==
  [][(HandlerStep /\ \E i \in 1..d.seq_len : StopsAt(i)) =>
       /\ EveryEntryOnce
       /\ SecondStopIdle
       /\ d'.running <=> (d'.ch_active # {})]_vars

\* The statements of a start on the idle device.
StartPcs == {"start_upd", "start_run", "start_clr", "start_nvic", "start_arm"}

\* The scan list and the hardware mapping are those of the active channels.
Rebuilt ==
  ListsActive(d.ch_state, d.seq_len, d.ch_active) /\ hw.rank = d.ch_state

\* What has been done, and what has not yet, at each statement of the start.
StartOrder ==
  /\ task.pc = "start_upd" => ~d.running /\ ~hw.nvic
  /\ task.pc = "start_run" => Rebuilt /\ ~d.running /\ ~hw.nvic
  /\ task.pc = "start_clr" => Rebuilt /\ d.running /\ ~hw.nvic
  /\ task.pc = "start_nvic" => Rebuilt /\ d.running /\ ~hw.tcif /\ ~hw.nvic
  /\ task.pc = "start_arm" =>
       Rebuilt /\ d.running /\ ~hw.tcif /\ hw.nvic /\ ~hw.trig /\ ~hw.conv

\* The start arms the first conversion.
ArmStep == task.pc = "start_arm" /\ task'.pc = "ret"

\* A scan ends.
ScanStep == gh'.scanNo = gh.scanNo + 1

\* A start on the idle device has armed the conversion for a channel that
\* is still active, no handler has run since, and no stop is under way.
FirstScanAwaited ==
  /\ task.op # "stop"
  /\ task.pc \notin StartPcs \cup {"start_seq"}
  /\ \E id \in d.ch_active : gh.c[id].idleStart /\ gh.c[id].hr = 0

Horizon == gh.scanNo = MaxScans

\* The task has set channel id up on a running device and is about to enter
\* platform_adc_start_sequence.
StartedWhileRunning(id) ==
  /\ task.op = "start" /\ task.id = id /\ task.pc = "start_seq"
  /\ ~gh.c[id].idleStart

\* The channel has had a sample since its start.
Sampled(id) == Len(gh.c[id].dlv) > 0

\* C29: a channel started while the device is running is not lost: every
\* rebuild puts it in the scan list while it is active, and it eventually
\* gets a sample, whatever handler runs interleave with the start, as long
\* as scans keep completing.
C29_StartWhileRunningNotLost ==
  /\ [][RebuildStep =>
          \A id \in d'.ch_active : id \in Range(d'.ch_state)]_vars
  /\ \A id \in Channels :
       StartedWhileRunning(id) ~> (Sampled(id) \/ Horizon)

\* Channel id is active with a requested count above 0.
BoundedActive(id) == id \in d.ch_active /\ ch[id].reqsamples > 0

\* The device is running and every active channel has a requested count.
RunningAllBounded ==
  d.running /\ \A id \in d.ch_active : ch[id].reqsamples > 0

\* C30: with no stop requested, every started channel with a requested count
\* above 0 eventually becomes inactive, and the device eventually returns to
\* idle once all its active channels have a requested count, whatever the
\* task drains in between, as long as scans keep completing.
C30_BoundedChannelsTerminate ==
  /\ \A id \in Channels : BoundedActive(id) ~> (id \notin d.ch_active \/ Horizon)
  /\ RunningAllBounded ~>
       (~d.running \/ Horizon \/ \E id \in d.ch_active : ch[id].reqsamples = 0)

(***************************************************************************)
(* Further properties of the ring buffer (checked under SpecRB).           *)
(***************************************************************************)
\* The bytes the buffer holds: accepted by a push and not yet given up by a
\* completed pop.
Stored == Len(rbHist.pushed) - Len(rbHist.popped)

\* C31: in every reachable state of a ring buffer of size N, top and bottom
\* are in 0..N-1, is_empty holds exactly when top = bottom, is_full holds
\* exactly when (top + 1) mod N = bottom, and at most N-1 bytes are stored.
C31_IndicesInRange ==
  /\ 0 <= rb.top /\ rb.top < rb.size
  /\ 0 <= rb.bottom /\ rb.bottom < rb.size
  /\ rbuff_is_empty(rb) <=> (rb.top = rb.bottom)
  /\ rbuff_is_full(rb) <=> ((rb.top + 1) % rb.size = rb.bottom)
  /\ rbuff_is_empty(rb) <=> (Stored = 0)
  /\ rbuff_is_full(rb) <=> (Stored = rb.size - 1)
  /\ Stored = rbuff_count(rb)
  /\ Stored <= rb.size - 1

\* The largest buffer is full after its write position has wrapped around.
C31_Witness ==
  /\ rb.size = MaxRBSize
  /\ rbuff_is_full(rb)
  /\ rb.top < rb.bottom
  /\ Stored = rb.size - 1
  /\ Len(rbHist.popped) >= 1

(***************************************************************************)
(* Further properties of the ADC device (checked under Spec).              *)
(***************************************************************************)
\* C32: the write position and the data of a channel's buffer change only in
\* a run of the completion handler, which leaves the read position alone
\* and stores a sample of that channel; the read position changes only in
\* task context, which leaves the write position and the data alone.  No
\* buffer has a second producer.
C32_SingleWriter ==
  [][\A id \in Channels :
       LET p == ch[id].buf
           q == ch'[id].buf
       IN /\ q.size = p.size
          /\ (q.top # p.top \/ q.data # p.data) =>
               /\ HandlerStep
               /\ q.bottom = p.bottom
               /\ \E i \in Positions(id) :
                    /\ q = rbuff_push(p, d.sample_buf[i])
                    /\ d.sample_buf[i] # NoSample
                    /\ d.sample_buf[i][1] = id
          /\ q.bottom # p.bottom =>
               /\ ~HandlerStep /\ task.pc = "idle"
               /\ q.top = p.top /\ q.data = p.data]_vars

\* The handler has queued samples for both channels, and the task has
\* drained one of them while it was active; samples are still unread.
C32_Witness ==
  /\ \A id \in Channels : Len(gh.c[id].drained) + rbuff_count(ch[id].buf) >= 1
  /\ \E id \in Channels :
       /\ gh.c[id].midDrain /\ Len(gh.c[id].drained) >= 1
       /\ ~rbuff_is_empty(ch[id].buf)

\* The first statement of platform_adc_set_clock.
ClockEntryStep == task.pc = "idle" /\ task'.pc = "clk_mode"

\* Its remaining statements.
ClockConfigStep == ~HandlerStep /\ task.pc = "clk_mode" /\ task'.pc # "clk_mode"

\* What is not the clock mode or the timer and trigger configuration.
ClockFrame ==
  /\ ch' = ch
  /\ d' = [d EXCEPT !.clocked = d'.clocked]
  /\ hw' = [hw EXCEPT !.trig = hw'.trig, !.cfgEdge = hw'.cfgEdge,
                       !.timPeriod = hw'.timPeriod,
                       !.timPrescaler = hw'.timPrescaler]

\* C33: set_clock first disables the hardware trigger, changing nothing
\* else, and only then changes clocked and the timer and trigger
\* configuration, with the trigger still off unless a handler run came in
\* between; running, the active channels, the scan list and every channel
\* state are left as the call finds them.
C33_SetClockFrame ==
  /\ [][ClockEntryStep =>
          /\ ch' = ch /\ d' = d
          /\ hw' = [hw EXCEPT !.trig = FALSE]]_vars
  /\ [][ClockConfigStep =>
          /\ ClockFrame
          /\ hw'.trig = hw.trig
          /\ ~task.preempted => ~hw.trig]_vars

\* Called for a running device with both channels active, set_clock has
\* selected software-triggered mode and is about to return.
C33_Witness ==
  /\ task.op = "clock" /\ task.pc = "ret" /\ ~task.preempted
  /\ task.f = 0 /\ ~d.clocked /\ hw.cfgEdge = "None"
  /\ d.running /\ d.ch_active = Channels /\ d.seq_len = 2
  /\ ~hw.trig

(***************************************************************************)
(* Properties of delay_ms (checked under SpecDelayLive).                   *)
(***************************************************************************)
\* delay_ms returns only after the counter has advanced by its argument.
NeverEarly == dly.pc = "ret" => dly.elapsed >= dly.req

\* C34: delay_ms(ms) returns after the tick counter has advanced by at least
\* ms ticks from its value at the call and never earlier, for every start
\* value of the counter, those where counter + ms wraps included; and it
\* returns, provided ticks keep occurring.
C34_DelayReturnsAfterMs ==
  /\ []NeverEarly
  /\ (dly.pc # "idle") ~> (dly.pc = "ret")

=============================================================================
